---- MODULE Spec2Model ----
(***************************************************************************)
(* Sink Your Time: the timer session engine.                               *)
(*                                                                         *)
(* The zustand timer store (startTimer, pauseTimer, resetTimer, setMode,   *)
(* tick, completeSession, saveCurrentSession, ...), session validation,    *)
(* the session table of the database, and the Timer component that drives  *)
(* the store (interval effect, handleTimerComplete, handleSaveSession,     *)
(* duration editing).                                                      *)
(*                                                                         *)
(* Two specifications:                                                     *)
(*   SpecStore  the store driven through its public operations with        *)
(*              arbitrary arguments, the way a unit test drives it;        *)
(*   Spec       the store driven by the Timer component and the user.      *)
(***************************************************************************)
EXTENDS Integers, Sequences, FiniteSets, TLC

(***************************************************************************)
(* Bounds of the model.                                                    *)
(***************************************************************************)
MaxSessions == 1        \* rows of the timerSessions table
MaxPending == 1         \* sessionService.create calls in flight
MaxPomodoros == 5       \* completedPomodoros is not counted further

(***************************************************************************)
(* Program constants.                                                      *)
(***************************************************************************)
SecondsPerMinute == 60
MillisPerSecond == 1000
DefaultWorkMinutes == 25
DefaultShortBreakMinutes == 5
DefaultLongBreakMinutes == 15

Modes == {"work", "short_break", "long_break"}

\* undefined / null values of the store
NoTime == 0             \* sessionStartTime: undefined; a Date is a stamp >= 1
NoProject == "null"     \* currentProject: undefined
NoCategory == "null"    \* currentCategory: undefined

VARIABLES
  projects,           \* db.projects: the ids of the rows
  categories,         \* db.categories: the rows, as [id, projectId]
  projectList,        \* useProjectStore().projects: the ids of the projects in memory
  timer,              \* state of useTimerStore
  cache,              \* localStorage "userSettings" (durations, in minutes; 0: absent)
  settings,           \* useSettingsStore().settings as read by the Timer component
  sessions,           \* db.timerSessions, in order of creation
  pending,            \* sessionService.create calls that have not settled
  lastCall,           \* the handler that ran last and what it signalled to its caller
  intervalRef,        \* Timer: intervalRef.current (0: null)
  active,             \* window: ids of the intervals that are registered
  autoStarts,         \* window: pending setTimeout(startTimer, 1000) callbacks
  isEditingDuration,  \* Timer: useState isEditingDuration
  editingMinutes,     \* Timer: useState editingMinutes
  editStep,           \* position inside handleDurationSave
  selectedProject,    \* useProjectStore().currentProject
  selectedCategory,   \* useProjectStore().currentCategory
  durable,            \* db.userSettings: the row "default"
  error,              \* useSettingsStore().error
  rootDark,           \* document.documentElement has the class dark
  osDark,             \* matchMedia("(prefers-color-scheme: dark)").matches
  themeListener,      \* handleChange of initializeTheme is registered
  analyticsData,      \* Analytics: the value of the analyticsData memo
  mounted             \* the Timer component is mounted (the page of a project is shown)

storeVars == <<timer, cache, sessions, pending, lastCall>>
themeVars == <<durable, error, rootDark, osDark, themeListener, analyticsData, mounted>>
appVars == <<projects, categories, projectList, themeVars, settings, intervalRef, active, autoStarts,
             isEditingDuration, editingMinutes, editStep,
             selectedProject, selectedCategory>>
vars == <<projects, categories, projectList, timer, cache, settings, sessions, pending, lastCall, intervalRef,
          active, autoStarts, isEditingDuration, editingMinutes,
          editStep, selectedProject, selectedCategory,
          durable, error, rootDark, osDark, themeListener, analyticsData, mounted>>

(***************************************************************************)
(* useTimerStore: initial state and synchronous actions.                   *)
(***************************************************************************)
InitialTimerState ==
  [isRunning |-> FALSE,
   currentMode |-> "work",
   timeLeft |-> DefaultWorkMinutes * SecondsPerMinute,
   totalTime |-> DefaultWorkMinutes * SecondsPerMinute,
   completedPomodoros |-> 0,
   sessionStartTime |-> NoTime,
   currentProject |-> NoProject,
   currentCategory |-> NoCategory]

\* new Date(): a stamp that differs from every Date the program still holds
Now ==
  LET used == {timer.sessionStartTime}
              \cup {sessions[i].startTime : i \in DOMAIN sessions}
              \cup {pending[i].session.startTime : i \in DOMAIN pending}
  IN CHOOSE n \in 1..(Cardinality(used) + 1) :
       n \notin used /\ \A m \in 1..(n - 1) : m \in used

startTimerAlwaysStamps(s, now) ==
  IF ~s.isRunning
  THEN [s EXCEPT !.isRunning = TRUE, !.sessionStartTime = now]
  ELSE s

startTimer(s, now) ==
  IF ~s.isRunning
  THEN [s EXCEPT !.isRunning = TRUE,
                 !.sessionStartTime =
                    IF s.sessionStartTime # NoTime
                    THEN s.sessionStartTime ELSE now]
  ELSE s

pauseTimerClearsSession(s) ==
  [s EXCEPT !.isRunning = FALSE, !.sessionStartTime = NoTime]

pauseTimer(s) == [s EXCEPT !.isRunning = FALSE]

\* (x || d): 0 stands for every falsy value (absent, 0, NaN)
OrDefault(x, d) == IF x = 0 THEN d ELSE x

ModeDuration(mode, c) ==
  IF mode = "work"
  THEN OrDefault(c.workDuration, DefaultWorkMinutes) * SecondsPerMinute
  ELSE IF mode = "short_break"
  THEN OrDefault(c.shortBreakDuration, DefaultShortBreakMinutes) * SecondsPerMinute
  ELSE IF mode = "long_break"
  THEN OrDefault(c.longBreakDuration, DefaultLongBreakMinutes) * SecondsPerMinute
  ELSE DefaultWorkMinutes * SecondsPerMinute

resetTimerToWork(s, c) ==
  [s EXCEPT !.isRunning = FALSE,
            !.timeLeft = ModeDuration("work", c),
            !.totalTime = ModeDuration("work", c),
            !.sessionStartTime = NoTime]

resetTimer(s, c) ==
  [s EXCEPT !.isRunning = FALSE,
            !.timeLeft = ModeDuration(s.currentMode, c),
            !.totalTime = ModeDuration(s.currentMode, c),
            !.sessionStartTime = NoTime]

setModeKeepsSession(s, mode, c) ==
  [s EXCEPT !.currentMode = mode,
            !.timeLeft = ModeDuration(mode, c),
            !.totalTime = ModeDuration(mode, c)]

setMode(s, mode, c) ==
  [s EXCEPT !.currentMode = mode,
            !.timeLeft = ModeDuration(mode, c),
            !.totalTime = ModeDuration(mode, c),
            !.isRunning = FALSE,
            !.sessionStartTime = NoTime]

setProject(s, project) == [s EXCEPT !.currentProject = project]

setCategory(s, category) == [s EXCEPT !.currentCategory = category]

tickIgnoresRunning(s) ==
  IF s.timeLeft > 0 THEN [s EXCEPT !.timeLeft = s.timeLeft - 1] ELSE s

tick(s) ==
  IF s.isRunning /\ s.timeLeft > 0
  THEN [s EXCEPT !.timeLeft = s.timeLeft - 1]
  ELSE s

updateTimeLeft(s, time) == [s EXCEPT !.timeLeft = time]

updateTotalTime(s, time) == [s EXCEPT !.totalTime = time]

incrementPomodoros(s) ==
  [s EXCEPT !.completedPomodoros = s.completedPomodoros + 1]

resetPomodoros(s) == [s EXCEPT !.completedPomodoros = 0]

clearCurrentSessionKeepsRunning(s) ==
  [s EXCEPT !.sessionStartTime = NoTime]

clearCurrentSession(s) ==
  [s EXCEPT !.sessionStartTime = NoTime, !.isRunning = FALSE]

(***************************************************************************)
(* Session records, validation and the session table.                      *)
(***************************************************************************)
secondsToMilliseconds(seconds) == seconds * MillisPerSecond

SessionOfPlannedAsActual(s) ==
  [projectId |-> s.currentProject,
   categoryId |-> s.currentCategory,
   type |-> s.currentMode,
   plannedDuration |-> secondsToMilliseconds(s.totalTime),
   actualDuration |-> secondsToMilliseconds(s.totalTime),
   startTime |-> s.sessionStartTime,
   completed |-> (s.timeLeft = 0)]

\* the session object built by completeSession and by saveCurrentSession
\* (endTime, the moment of the save, is not part of the model)
SessionOf(s) ==
  [projectId |-> s.currentProject,
   categoryId |-> s.currentCategory,
   type |-> s.currentMode,
   plannedDuration |-> secondsToMilliseconds(s.totalTime),
   actualDuration |-> secondsToMilliseconds(s.totalTime - s.timeLeft),
   startTime |-> s.sessionStartTime,
   completed |-> (s.timeLeft = 0)]

validateSessionDataNoDurations(session) ==
  (IF session.projectId = "" THEN {"Missing projectId"} ELSE {})
  \cup (IF session.categoryId = "" THEN {"Missing categoryId"} ELSE {})
  \cup (IF session.startTime = NoTime THEN {"Missing startTime"} ELSE {})
  \cup (IF session.type \notin Modes THEN {"Invalid session type"} ELSE {})

\* the errors of validateSessionData; isValid is "no errors"
validateSessionData(session) ==
  (IF session.projectId = "" THEN {"Missing projectId"} ELSE {})
  \cup (IF session.categoryId = "" THEN {"Missing categoryId"} ELSE {})
  \cup (IF session.startTime = NoTime THEN {"Missing startTime"} ELSE {})
  \cup (IF session.plannedDuration <= 0 THEN {"Invalid plannedDuration"} ELSE {})
  \cup (IF session.actualDuration < 0 THEN {"Invalid actualDuration"} ELSE {})
  \cup (IF session.type \notin Modes THEN {"Invalid session type"} ELSE {})

\* sessionService.create: does the row get added (dbOk: db.timerSessions.add succeeds)
createStores(session, dbOk) ==
  /\ session.projectId # ""
  /\ session.categoryId # ""
  /\ session.startTime # NoTime
  /\ dbOk

(***************************************************************************)
(* useTimerStore: completeSession and saveCurrentSession.  Each runs up to *)
(* its await of sessionService.create (the path), and finishes when the    *)
(* call has settled.                                                       *)
(***************************************************************************)
HasContext(s) ==
  /\ s.currentProject # NoProject
  /\ s.currentCategory # NoCategory
  /\ s.sessionStartTime # NoTime

completeSessionPathNoGuard(s) ==
  IF validateSessionData(SessionOf(s)) # {} THEN "invalid" ELSE "create"

completeSessionPath(s) ==
  IF HasContext(s)
  THEN IF validateSessionData(SessionOf(s)) # {} THEN "invalid" ELSE "create"
  ELSE "missing"

\* the state completeSession leaves: the validation failure returns early
completeSessionEnd(s, path) ==
  IF path = "invalid"
  THEN s
  ELSE [s EXCEPT !.isRunning = FALSE, !.sessionStartTime = NoTime]

completeSessionRethrows(path, stored) ==
  IF path = "create" /\ ~stored THEN "rejected" ELSE "resolved"

\* how the promise of completeSession settles: every error is caught
completeSessionSignal(path, stored) == "resolved"

saveCurrentSessionPathNoGuard(s) ==
  IF validateSessionData(SessionOf(s)) # {} THEN "invalid" ELSE "create"

saveCurrentSessionPath(s) ==
  IF s.sessionStartTime = NoTime THEN "no_session"
  ELSE IF s.currentProject = NoProject \/ s.currentCategory = NoCategory
  THEN "no_project"
  ELSE IF validateSessionData(SessionOf(s)) # {} THEN "invalid"
  ELSE "create"

saveCurrentSessionEndStopsOnFailure(s, path, stored) ==
  IF path = "create"
  THEN [s EXCEPT !.sessionStartTime = NoTime, !.isRunning = FALSE]
  ELSE s

saveCurrentSessionEnd(s, path, stored) ==
  IF path = "create" /\ stored
  THEN [s EXCEPT !.sessionStartTime = NoTime, !.isRunning = FALSE]
  ELSE s

saveCurrentSessionSignal(path, stored) ==
  IF path = "create" /\ stored THEN "resolved" ELSE "rejected"

(***************************************************************************)
(* useSettingsStore, settingsService and utils/theme.  A settings object   *)
(* (the store's settings, the parsed userSettings item of localStorage,    *)
(* the row of db.userSettings, the argument of updateSettings) is a        *)
(* function from the names of the fields it has to their values.           *)
(***************************************************************************)
Themes == {"light", "dark", "system"}
NoError == "null"       \* error: null

DEFAULT_SETTINGS ==
  [workDuration |-> DefaultWorkMinutes,
   shortBreakDuration |-> DefaultShortBreakMinutes,
   longBreakDuration |-> DefaultLongBreakMinutes,
   longBreakInterval |-> 4,
   audioEnabled |-> TRUE,
   notificationsEnabled |-> TRUE,
   autoStartBreaks |-> FALSE,
   theme |-> "system"]

\* the object spread {...a, ...b}
MergeResetsAbsent(a, b) ==
  [f \in DOMAIN a \cup DOMAIN b |->
     IF f \in DOMAIN b THEN b[f]
     ELSE IF f \in DOMAIN DEFAULT_SETTINGS THEN DEFAULT_SETTINGS[f] ELSE a[f]]

Merge(a, b) ==
  [f \in DOMAIN a \cup DOMAIN b |-> IF f \in DOMAIN b THEN b[f] ELSE a[f]]

\* localStorage has no userSettings item: the timer store and applyTheme parse "{}"
NoStoredSettings == [f \in {} |-> 0]

\* the row of db.userSettings that initializeDatabase adds
DbRow == Merge([id |-> "default"], DEFAULT_SETTINGS)

getSettingsFromLocalStorage(c) == Merge(DEFAULT_SETTINGS, c)

\* settingsService.get catches the error of the read and answers the defaults
settingsServiceGet(d, dbOk) == IF dbOk THEN d ELSE DEFAULT_SETTINGS

\* db.userSettings.update("default", updates)
settingsServiceUpdate(d, u) == Merge(d, u)

\* applyTheme: the dark class of the document root, and the item it writes
applyThemeClass(theme, os) == theme = "dark" \/ (theme = "system" /\ os)
applyThemeCache(c, theme) == Merge(c, [theme |-> theme])

getCurrentTheme(c) ==
  IF "theme" \in DOMAIN c /\ c.theme \in Themes THEN c.theme ELSE "system"

\* what resetTimer and setMode read of the item: an absent field is undefined
CacheView(c) ==
  [workDuration |-> IF "workDuration" \in DOMAIN c THEN c.workDuration ELSE 0,
   shortBreakDuration |->
     IF "shortBreakDuration" \in DOMAIN c THEN c.shortBreakDuration ELSE 0,
   longBreakDuration |->
     IF "longBreakDuration" \in DOMAIN c THEN c.longBreakDuration ELSE 0]

\* loadSettings: the store's settings, the item and the error it leaves
loadSettings(c, d, dbOk) ==
  LET mergedSettings == Merge(settingsServiceGet(d, dbOk), getSettingsFromLocalStorage(c))
  IN [settings |-> mergedSettings, cache |-> mergedSettings, error |-> NoError]

updateSettingsSkipsCacheOnFailure(s, c, u, dbOk) ==
  IF dbOk
  THEN [settings |-> Merge(s, u), cache |-> Merge(s, u), error |-> NoError]
  ELSE [settings |-> s, cache |-> c, error |-> NoError]

\* updateSettings: the store's settings, the item and the error it leaves
updateSettings(s, c, u, dbOk) ==
  IF dbOk
  THEN [settings |-> Merge(s, u), cache |-> Merge(s, u), error |-> NoError]
  ELSE [settings |-> s, cache |-> Merge(s, u),
        error |-> "Failed to save settings to database, but local changes were applied"]

resetSettingsKeepsOnFailure(s, c, dbOk) ==
  IF dbOk
  THEN [settings |-> DEFAULT_SETTINGS, cache |-> DEFAULT_SETTINGS, error |-> NoError]
  ELSE [settings |-> s, cache |-> c,
        error |-> "Failed to reset settings in database, but local settings were reset"]

\* resetSettings: the store's settings, the item and the error it leaves
resetSettings(s, c, dbOk) ==
  IF dbOk
  THEN [settings |-> DEFAULT_SETTINGS, cache |-> DEFAULT_SETTINGS, error |-> NoError]
  ELSE [settings |-> DEFAULT_SETTINGS, cache |-> DEFAULT_SETTINGS,
        error |-> "Failed to reset settings in database, but local settings were reset"]

(***************************************************************************)
(* Analytics: the analyticsData of the page, computed from the sessions it *)
(* loaded, the projects of the project store and their categories.  Times  *)
(* that the code keeps as fractions of a minute are kept in milliseconds.   *)
(***************************************************************************)
MillisPerMinute == MillisPerSecond * SecondsPerMinute

\* Math.round of a number of minutes given in milliseconds
MathRoundMinutes(ms) == (ms + (MillisPerMinute \div 2)) \div MillisPerMinute

RECURSIVE SumDurations(_, _)
\* reduce((sum, session) => sum + session.actualDuration / (1000 * 60), 0)
SumDurations(ss, I) ==
  IF I = {} THEN 0
  ELSE LET i == CHOOSE j \in I : TRUE
       IN ss[i].actualDuration + SumDurations(ss, I \ {i})

workSessions(ss) == {i \in DOMAIN ss : ss[i].type = "work"}

\* the rounded minutes of every project of the store that keeps an entry
projectBreakdown(ss, ps) ==
  LET time(p) == MathRoundMinutes(
                   SumDurations(ss, {i \in workSessions(ss) : ss[i].projectId = p}))
  IN [p \in {q \in ps : time(q) > 0} |-> time(p)]

categoryBreakdownCountsEverySession(ss, ps, cs) ==
  LET time(c) == MathRoundMinutes(
                   SumDurations(ss, {i \in workSessions(ss) : ss[i].categoryId = c}))
      found == {ss[i].categoryId : i \in workSessions(ss)}
  IN [c \in {d \in found : time(d) > 0} |-> time(c)]

\* the rounded minutes of every category found among the categories of the
\* project of a session
categoryBreakdown(ss, ps, cs) ==
  LET counted == {i \in workSessions(ss) :
                    /\ ss[i].projectId \in ps
                    /\ [id |-> ss[i].categoryId, projectId |-> ss[i].projectId] \in cs}
      time(c) == MathRoundMinutes(
                   SumDurations(ss, {i \in counted : ss[i].categoryId = c}))
      found == {ss[i].categoryId : i \in counted}
  IN [c \in {d \in found : time(d) > 0} |-> time(c)]

analyticsDataOf(ss, ps, cs) ==
  [totalFocusedTime |-> SumDurations(ss, workSessions(ss)),
   projectBreakdown |-> projectBreakdown(ss, ps),
   categoryBreakdown |-> categoryBreakdown(ss, ps, cs)]

\* the settings store, the theme and the analytics page where the
\* specification leaves them alone
ThemeIdle ==
  /\ analyticsData = analyticsDataOf(<<>>, {}, {})
  /\ mounted = TRUE
  /\ durable = DbRow
  /\ error = NoError
  /\ rootDark = FALSE
  /\ osDark = FALSE
  /\ themeListener = FALSE

(***************************************************************************)
(* Environment of both specifications.                                     *)
(***************************************************************************)
EdgeWidth == 1          \* see Observed
TimeArgs == {0, 1, 900} \* arguments of updateTimeLeft in SpecStore
Projects == {"p1"}
Categories == {"c1"}
\* db.categories while the Timer is in use: the categories of the project of the page
CategoryRows == {[id |-> c, projectId |-> p] : c \in Categories, p \in Projects}

\* localStorage "userSettings": not written yet, or written by the settings store
NoCache == [workDuration |-> 0, shortBreakDuration |-> 0, longBreakDuration |-> 0]
StoredCache == [workDuration |-> 2, shortBreakDuration |-> 1, longBreakDuration |-> 3]
CacheValues == {NoCache, StoredCache}

\* the moments at which the user acts: within EdgeWidth seconds of the start
\* or of the end of a countdown
Observed(s) ==
  \/ s.timeLeft <= EdgeWidth
  \/ s.timeLeft \in (s.totalTime - EdgeWidth)..s.totalTime

\* the moments at which the caller of SpecStore issues an operation
ObservedStore(s) == Observed(s) \/ s.timeLeft \in TimeArgs

Call(op, result) == [op |-> op, result |-> result]

NoClosure == [mode |-> "work", pomodoros |-> 0, interval |-> 1, autoStart |-> FALSE]

\* an entry of pending: the caller, the session handed to sessionService.create
\* and (for handleTimerComplete) the values its closure captured
PendingCreate(caller, session, closure) ==
  [caller |-> caller, session |-> session, closure |-> closure, ticks |-> 0]

RemoveAt(seq, i) == SubSeq(seq, 1, i - 1) \o SubSeq(seq, i + 1, Len(seq))

InitApp ==
  /\ settings = [longBreakInterval |-> 4, autoStartBreaks |-> FALSE]
  /\ intervalRef = 0
  /\ active = {}
  /\ autoStarts = 0
  /\ isEditingDuration = FALSE
  /\ editingMinutes = DefaultWorkMinutes
  /\ editStep = "idle"
  /\ selectedProject = NoProject
  /\ selectedCategory = NoCategory
  /\ projects = Projects
  /\ categories = CategoryRows
  /\ projectList = Projects
  /\ ThemeIdle

(***************************************************************************)
(* SpecStore: the store's operations, called one at a time by a caller     *)
(* that passes arbitrary arguments and awaits every promise before its     *)
(* next call.  A behaviour is followed until the table holds MaxSessions   *)
(* rows.                                                                   *)
(***************************************************************************)
TableOpen == Len(sessions) < MaxSessions

InitStore ==
  /\ timer = InitialTimerState
  /\ cache = StoredCache
  /\ sessions = <<>>
  /\ pending = <<>>
  /\ lastCall = Call("create", "returned")
  /\ InitApp

StoreSync(op, s) ==
  /\ TableOpen
  /\ ObservedStore(timer)
  /\ timer' = s
  /\ lastCall' = Call(op, "returned")
  /\ UNCHANGED <<cache, sessions, pending>>
  /\ UNCHANGED appVars

StoreStartTimer == StoreSync("startTimer", startTimer(timer, Now))

StorePauseTimer == StoreSync("pauseTimer", pauseTimer(timer))

StoreResetTimer == StoreSync("resetTimer", resetTimer(timer, cache))

\* "nap": a mode the type of setMode excludes and the running program accepts
StoreSetMode ==
  \E m \in Modes \cup {"nap"} : StoreSync("setMode", setMode(timer, m, cache))

StoreSetProject ==
  \E p \in Projects \cup {""} : StoreSync("setProject", setProject(timer, p))

StoreSetCategory ==
  \E c \in Categories \cup {""} : StoreSync("setCategory", setCategory(timer, c))

StoreTick == StoreSync("tick", tick(timer))

StoreUpdateTimeLeft ==
  \E t \in TimeArgs : StoreSync("updateTimeLeft", updateTimeLeft(timer, t))

StoreUpdateTotalTime ==
  \E t \in {0, 1} : StoreSync("updateTotalTime", updateTotalTime(timer, t))

StoreClearCurrentSession ==
  StoreSync("clearCurrentSession", clearCurrentSession(timer))

\* the settings store writes localStorage "userSettings", or the user clears
\* the storage of the site
StoreCacheWrite ==
  \E c \in CacheValues :
    /\ TableOpen
    /\ c # cache
    /\ cache' = c
    /\ lastCall' = Call("setItem", "returned")
    /\ UNCHANGED <<timer, sessions, pending>>
    /\ UNCHANGED appVars

\* await completeSession()
StoreCompleteSession ==
  \E dbOk \in BOOLEAN :
    LET path == completeSessionPath(timer)
        stored == path = "create" /\ createStores(SessionOf(timer), dbOk) IN
    /\ TableOpen
    /\ ObservedStore(timer)
    /\ sessions' = IF stored THEN Append(sessions, SessionOf(timer)) ELSE sessions
    /\ timer' = completeSessionEnd(timer, path)
    /\ lastCall' = Call("completeSession", completeSessionSignal(path, stored))
    /\ UNCHANGED <<cache, pending>>
    /\ UNCHANGED appVars

\* await saveCurrentSession()
StoreSaveCurrentSession ==
  \E dbOk \in BOOLEAN :
    LET path == saveCurrentSessionPath(timer)
        stored == path = "create" /\ createStores(SessionOf(timer), dbOk) IN
    /\ TableOpen
    /\ ObservedStore(timer)
    /\ sessions' = IF stored THEN Append(sessions, SessionOf(timer)) ELSE sessions
    /\ timer' = saveCurrentSessionEnd(timer, path, stored)
    /\ lastCall' = Call("saveCurrentSession", saveCurrentSessionSignal(path, stored))
    /\ UNCHANGED <<cache, pending>>
    /\ UNCHANGED appVars

NextStore ==
  \/ StoreStartTimer
  \/ StorePauseTimer
  \/ StoreResetTimer
  \/ StoreSetMode
  \/ StoreSetProject
  \/ StoreSetCategory
  \/ StoreTick
  \/ StoreUpdateTimeLeft
  \/ StoreUpdateTotalTime
  \/ StoreClearCurrentSession
  \/ StoreCacheWrite
  \/ StoreCompleteSession
  \/ StoreSaveCurrentSession

SpecStore == InitStore /\ [][NextStore]_vars

(***************************************************************************)
(* The Timer component.                                                    *)
(***************************************************************************)
MaxAutoStarts == 1      \* auto-start timeouts that have not fired
MaxTicksPending == 1    \* ticks that go by before a sessionService.create call settles
MinuteArgs == {-1, 1}   \* minutes typed into the duration dialog

\* window.setInterval: the id of the new interval, one that is not registered
FreshInterval(act) ==
  CHOOSE n \in 1..(Cardinality(act) + 1) :
    n \notin act /\ \A m \in 1..(n - 1) : m \in act

cleanupKeepsInterval(ref, act) == act

\* cleanup of the interval effect: clearInterval(intervalRef.current)
cleanup(ref, act) == IF ref # 0 THEN act \ {ref} ELSE act

\* the values of a render that handleTimerComplete closes over
Closure(s, st) ==
  [mode |-> s.currentMode,
   pomodoros |-> s.completedPomodoros,
   interval |-> st.longBreakInterval,
   autoStart |-> st.autoStartBreaks]

shouldTakeLongBreakOffByOne(pomodoros, interval) == pomodoros % interval = 0

shouldTakeLongBreak(pomodoros, interval) == (pomodoros + 1) % interval = 0

handleTimerCompleteRestCountsBreaks(s, cl, c) ==
  setMode(incrementPomodoros(s),
          IF cl.mode # "work" THEN "work"
          ELSE IF shouldTakeLongBreak(cl.pomodoros, cl.interval)
          THEN "long_break" ELSE "short_break",
          c)

\* handleTimerComplete after its await: the pomodoro count and the next mode
handleTimerCompleteRest(s, cl, c) ==
  IF cl.mode = "work"
  THEN setMode(incrementPomodoros(s),
               IF shouldTakeLongBreak(cl.pomodoros, cl.interval)
               THEN "long_break" ELSE "short_break",
               c)
  ELSE setMode(s, "work", c)

schedulesAutoStartAfterBreaks(cl) == cl.autoStart

\* handleTimerComplete schedules setTimeout(startTimer, 1000)
schedulesAutoStart(cl) == cl.mode = "work" /\ cl.autoStart

\* handleTimerComplete from the point where completeSession has settled:
\* a rejection ends the handler at its await
afterCompleteSession(s, cl, c, signal) ==
  IF signal = "resolved" THEN handleTimerCompleteRest(s, cl, c) ELSE s

\* A commit of the Timer after the store changed from old to new: when
\* isRunning or timeLeft changed, the cleanup of the interval effect and the
\* effect run; at timeLeft = 0 the effect calls handleTimerComplete, which
\* runs to its end unless completeSession awaits sessionService.create.
render(old, new, ref, act, pend, autos, st, c) ==
  IF new.isRunning = old.isRunning /\ new.timeLeft = old.timeLeft
  THEN [timer |-> new, ref |-> ref, act |-> act, pending |-> pend, autoStarts |-> autos]
  ELSE IF new.isRunning /\ new.timeLeft > 0
  THEN LET act1 == cleanup(ref, act)
           id == FreshInterval(act1)
       IN [timer |-> new, ref |-> id, act |-> act1 \cup {id},
           pending |-> pend, autoStarts |-> autos]
  ELSE IF new.timeLeft = 0 /\ new.isRunning
  THEN LET path == completeSessionPath(new)
           cl == Closure(new, st)
       IN IF path = "create"
          THEN [timer |-> new, ref |-> ref, act |-> cleanup(ref, act),
                pending |-> Append(pend, PendingCreate("completeSession", SessionOf(new), cl)),
                autoStarts |-> autos]
          ELSE [timer |-> afterCompleteSession(completeSessionEnd(new, path), cl, c,
                                               completeSessionSignal(path, FALSE)),
                ref |-> ref, act |-> cleanup(ref, act), pending |-> pend,
                autoStarts |-> IF completeSessionSignal(path, FALSE) = "resolved"
                                  /\ schedulesAutoStart(cl)
                               THEN autos + 1 ELSE autos]
  ELSE [timer |-> new, ref |-> ref, act |-> cleanup(ref, act),
        pending |-> pend, autoStarts |-> autos]

(***************************************************************************)
(* Spec: the user, the interval, the auto-start timeout and the database   *)
(* drive the Timer component, which is mounted on the page of a project.   *)
(* Every handler runs to its end (or to its await) and the commits that    *)
(* the store changes cause are part of the step.                           *)
(***************************************************************************)
SettingsValues ==
  {[longBreakInterval |-> 4, autoStartBreaks |-> FALSE],
   [longBreakInterval |-> 2, autoStartBreaks |-> TRUE]}

Init ==
  /\ selectedProject \in Projects
  /\ selectedCategory = NoCategory
  /\ projects = Projects
  /\ categories = CategoryRows
  /\ projectList = Projects
  /\ ThemeIdle
  /\ timer = setProject(InitialTimerState, selectedProject)
  /\ cache = StoredCache
  /\ settings \in SettingsValues
  /\ sessions = <<>>
  /\ pending = <<>>
  /\ lastCall = Call("mount", "returned")
  /\ intervalRef = 0
  /\ active = {}
  /\ autoStarts = 0
  /\ isEditingDuration = FALSE
  /\ editingMinutes = DefaultWorkMinutes
  /\ editStep = "idle"

\* no handler runs inside another one
Idle == editStep = "idle" /\ TableOpen

\* the user acts
UserMay == Idle /\ Observed(timer)

\* the store is s when the handler op is done; the Timer commits; at most
\* maxPending calls of sessionService.create are awaited at once
CommitWithin(op, result, s, pend, autos, maxPending) ==
  LET r == render(timer, s, intervalRef, active, pend, autos, settings, cache)
      completes == /\ s.isRunning /\ s.timeLeft = 0
                   /\ (s.isRunning # timer.isRunning \/ s.timeLeft # timer.timeLeft)
  IN /\ Len(r.pending) <= maxPending
     /\ r.autoStarts <= MaxAutoStarts
     /\ r.timer.completedPomodoros <= MaxPomodoros
     /\ timer' = r.timer
     /\ intervalRef' = r.ref
     /\ active' = r.act
     /\ pending' = r.pending
     /\ autoStarts' = r.autoStarts
     /\ lastCall' = Call(op, IF ~completes THEN result
                             ELSE IF Len(r.pending) > Len(pend) THEN "completing"
                             ELSE "completed")

Commit(op, result, s, pend, autos) ==
  CommitWithin(op, result, s, pend, autos, MaxPending)

Frame == UNCHANGED <<projects, categories, projectList, themeVars, cache, settings, sessions, isEditingDuration,
                     editingMinutes, editStep, selectedProject, selectedCategory>>

\* Start button, Space
UserStart ==
  /\ UserMay
  /\ ~timer.isRunning
  /\ Commit("startTimer", "returned", startTimer(timer, Now), pending, autoStarts)
  /\ Frame

\* Pause button, Space
UserPause ==
  /\ UserMay
  /\ timer.isRunning
  /\ Commit("pauseTimer", "returned", pauseTimer(timer), pending, autoStarts)
  /\ Frame

\* Reset button, R
UserReset ==
  /\ UserMay
  /\ Commit("resetTimer", "returned", resetTimer(timer, cache), pending, autoStarts)
  /\ Frame

\* the buttons of the mode selector
UserSetMode ==
  \E m \in Modes :
    /\ UserMay
    /\ Commit("setMode", "returned", setMode(timer, m, cache), pending, autoStarts)
    /\ Frame

\* the category selector of the page; the sync effect of the Timer copies the choice
UserSelectCategory ==
  \E c \in Categories :
    /\ UserMay
    /\ selectedCategory' = c
    /\ Commit("setCategory", "returned",
              IF c # timer.currentCategory THEN setCategory(timer, c) ELSE timer,
              pending, autoStarts)
    /\ UNCHANGED <<projects, categories, projectList, themeVars, cache, settings, sessions, isEditingDuration,
                   editingMinutes, editStep, selectedProject>>

IntervalFiresAwaitsSave ==
  \E id \in active :
    /\ Idle
    /\ \A i \in DOMAIN pending : pending[i].ticks < MaxTicksPending
    /\ Commit("tick", "returned", IF pending = <<>> THEN tick(timer) ELSE timer,
              [i \in DOMAIN pending |-> [pending[i] EXCEPT !.ticks = @ + 1]],
              autoStarts)
    /\ Frame

\* the callback of a registered interval
IntervalFires ==
  \E id \in active :
    /\ Idle
    /\ \A i \in DOMAIN pending : pending[i].ticks < MaxTicksPending
    /\ Commit("tick", "returned", tick(timer),
              [i \in DOMAIN pending |-> [pending[i] EXCEPT !.ticks = @ + 1]],
              autoStarts)
    /\ Frame

AutoStartFiresRestamps ==
  /\ Idle
  /\ autoStarts > 0
  /\ Commit("autoStart", IF timer.isRunning THEN "already running" ELSE "returned",
            [timer EXCEPT !.isRunning = TRUE, !.sessionStartTime = Now],
            pending, autoStarts - 1)
  /\ Frame

\* the callback of the auto-start timeout: startTimer(), which may find the
\* timer running because the user has started the break
AutoStartFires ==
  /\ Idle
  /\ autoStarts > 0
  /\ Commit("autoStart", IF timer.isRunning THEN "already running" ELSE "returned",
            startTimer(timer, Now), pending, autoStarts - 1)
  /\ Frame

\* handleSaveSession: Save Session button, Ctrl+S
UserSaveSession ==
  /\ UserMay
  /\ IF timer.sessionStartTime = NoTime
     THEN /\ lastCall' = Call("handleSaveSession", "No active session to save")
          /\ pending' = pending
     ELSE IF timer.currentProject = NoProject \/ timer.currentCategory = NoCategory
     THEN /\ lastCall' = Call("handleSaveSession",
                              "Please select a project and category before saving")
          /\ pending' = pending
     ELSE IF saveCurrentSessionPath(timer) = "create"
     THEN /\ Len(pending) < MaxPending
          /\ pending' = Append(pending,
                 PendingCreate("saveCurrentSession", SessionOf(timer), NoClosure))
          /\ lastCall' = Call("handleSaveSession", "pending")
     ELSE /\ lastCall' = Call("handleSaveSession", "Failed to save session")
          /\ pending' = pending
  /\ UNCHANGED <<timer, intervalRef, active, autoStarts>>
  /\ Frame

\* sessionService.create settles; the handler that awaited it runs to its end
CreateSettles ==
  \E i \in DOMAIN pending, dbOk \in BOOLEAN :
    LET call == pending[i]
        stored == createStores(call.session, dbOk)
        rest == RemoveAt(pending, i)
        signal == completeSessionSignal("create", stored)
    IN /\ Idle
       /\ sessions' = IF stored THEN Append(sessions, call.session) ELSE sessions
       /\ IF call.caller = "completeSession"
          THEN Commit("handleTimerComplete", signal,
                      afterCompleteSession(completeSessionEnd(timer, "create"),
                                           call.closure, cache, signal),
                      rest,
                      IF signal = "resolved" /\ schedulesAutoStart(call.closure)
                      THEN autoStarts + 1 ELSE autoStarts)
          ELSE Commit("handleSaveSession",
                      IF saveCurrentSessionSignal("create", stored) = "resolved"
                      THEN "Session saved successfully!" ELSE "Failed to save session",
                      saveCurrentSessionEnd(timer, "create", stored), rest, autoStarts)
       /\ UNCHANGED <<projects, categories, projectList, themeVars, cache, settings, isEditingDuration,
                      editingMinutes, editStep, selectedProject, selectedCategory>>

\* handleDurationEdit: double click on the time display
UserDurationEdit ==
  /\ UserMay
  /\ ~timer.isRunning
  /\ editingMinutes' = timer.totalTime \div SecondsPerMinute
  /\ isEditingDuration' = TRUE
  /\ lastCall' = Call("handleDurationEdit", "returned")
  /\ UNCHANGED <<timer, projects, categories, projectList, themeVars, cache, settings, sessions, pending, intervalRef, active,
                 autoStarts, editStep, selectedProject, selectedCategory>>

\* onChange of the minutes input: parseInt(value) || 25
UserDurationInput ==
  \E m \in MinuteArgs :
    /\ UserMay
    /\ isEditingDuration
    /\ editingMinutes' = OrDefault(m, DefaultWorkMinutes)
    /\ lastCall' = Call("setEditingMinutes", "returned")
    /\ UNCHANGED <<timer, projects, categories, projectList, themeVars, cache, settings, sessions, pending, intervalRef, active,
                   autoStarts, isEditingDuration, editStep,
                   selectedProject, selectedCategory>>

\* handleDurationSave, its first store call: updateTotalTime(newTotalTime).
\* The dialog stays open (isEditingDuration) when the timer starts; the
\* fullscreen view that a start brings up hides it until the user leaves that
\* view (Escape, close button), which the click on Save includes here.
UserDurationSave ==
  /\ UserMay
  /\ isEditingDuration
  /\ timer' = updateTotalTime(timer, editingMinutes * SecondsPerMinute)
  /\ editStep' = "updateTimeLeft"
  /\ lastCall' = Call("updateTotalTime", "returned")
  /\ UNCHANGED <<projects, categories, projectList, themeVars, cache, settings, sessions, pending, intervalRef, active, autoStarts,
                 isEditingDuration, editingMinutes,
                 selectedProject, selectedCategory>>

\* handleDurationSave, the rest: updateTimeLeft(newTotalTime), the dialog closes
DurationSaveEnds ==
  /\ editStep = "updateTimeLeft"
  /\ Commit("handleDurationSave", "returned",
            updateTimeLeft(timer, editingMinutes * SecondsPerMinute),
            pending, autoStarts)
  /\ isEditingDuration' = FALSE
  /\ editingMinutes' = DefaultWorkMinutes
  /\ editStep' = "idle"
  /\ UNCHANGED <<projects, categories, projectList, themeVars, cache, settings, sessions,
                 selectedProject, selectedCategory>>

\* handleDurationCancel
UserDurationCancel ==
  /\ UserMay
  /\ isEditingDuration
  /\ isEditingDuration' = FALSE
  /\ editingMinutes' = DefaultWorkMinutes
  /\ lastCall' = Call("handleDurationCancel", "returned")
  /\ UNCHANGED <<timer, projects, categories, projectList, themeVars, cache, settings, sessions, pending, intervalRef, active,
                 autoStarts, editStep,
                 selectedProject, selectedCategory>>

Next ==
  \/ UserStart
  \/ UserPause
  \/ UserReset
  \/ UserSetMode
  \/ UserSelectCategory
  \/ IntervalFires
  \/ AutoStartFires
  \/ UserSaveSession
  \/ CreateSettles

Spec == Init /\ [][Next]_vars

(***************************************************************************)
(* SpecEdit: the Timer with its duration dialog, on a page where no        *)
(* category is selected, so that no session is handed to the database.     *)
(***************************************************************************)
NextEdit ==
  \/ UserStart
  \/ UserPause
  \/ UserReset
  \/ UserSetMode
  \/ IntervalFires
  \/ AutoStartFires
  \/ UserSaveSession
  \/ UserDurationEdit
  \/ UserDurationInput
  \/ UserDurationSave
  \/ DurationSaveEnds
  \/ UserDurationCancel

SpecEdit == Init /\ [][NextEdit]_vars

(***************************************************************************)
(* SpecCycle: countdowns that run to their end one after the other.  The   *)
(* user starts each countdown and does nothing else to the timer.          *)
(***************************************************************************)
CycleSettings ==
  [longBreakInterval : 1..4, autoStartBreaks : BOOLEAN]

InitCycle ==
  /\ selectedProject \in Projects
  /\ selectedCategory = NoCategory
  /\ projects = Projects
  /\ categories = CategoryRows
  /\ projectList = Projects
  /\ ThemeIdle
  /\ timer = setProject(InitialTimerState, selectedProject)
  /\ cache = StoredCache
  /\ settings \in CycleSettings
  /\ sessions = <<>>
  /\ pending = <<>>
  /\ lastCall = Call("mount", "returned")
  /\ intervalRef = 0
  /\ active = {}
  /\ autoStarts = 0
  /\ isEditingDuration = FALSE
  /\ editingMinutes = DefaultWorkMinutes
  /\ editStep = "idle"

NextCycle ==
  \/ UserStart
  \/ UserSelectCategory
  \/ IntervalFires
  \/ AutoStartFires
  \/ CreateSettles

SpecCycle == InitCycle /\ [][NextCycle]_vars

(***************************************************************************)
(* SpecProjects: the project, category and session services on the         *)
(* database, called one at a time by a caller that awaits every promise,   *)
(* and the selection of the project store.                                 *)
(***************************************************************************)
MaxRows == 2            \* rows of db.timerSessions in SpecProjects
ProjectIds == {"p1", "p2"}
CategoryIds == {"c1", "c2"}

\* the steps of projectService.delete; failAt: the step that throws, 0 for none
StepProjects == 1
StepCategories == 2
StepSessions == 3
FailPoints == {0, StepProjects, StepCategories, StepSessions}

projectServiceDeleteKeepsSessions(ps, cs, ss, id, failAt) ==
  [projects |-> IF failAt = StepProjects THEN ps ELSE ps \ {id},
   categories |-> IF failAt \in {StepProjects, StepCategories} THEN cs
                  ELSE {c \in cs : c.projectId # id},
   sessions |-> ss,
   signal |-> IF failAt = 0 THEN "resolved" ELSE "rejected"]

\* projectService.delete(id): the three deletions run one after the other
\* and the first that throws ends the call
projectServiceDelete(ps, cs, ss, id, failAt) ==
  [projects |-> IF failAt = StepProjects THEN ps ELSE ps \ {id},
   categories |-> IF failAt \in {StepProjects, StepCategories} THEN cs
                  ELSE {c \in cs : c.projectId # id},
   sessions |-> IF failAt # 0 THEN ss
                ELSE SelectSeq(ss, LAMBDA r : r.projectId # id),
   signal |-> IF failAt = 0 THEN "resolved" ELSE "rejected"]

\* a call on a row of the database: the argument id is kept with the signal
CallOn(op, result, id) == [op |-> op, result |-> result, id |-> id]

InitProjects ==
  /\ timer = InitialTimerState
  /\ cache = NoCache
  /\ sessions = <<>>
  /\ pending = <<>>
  /\ lastCall = Call("create", "returned")
  /\ settings = [longBreakInterval |-> 4, autoStartBreaks |-> FALSE]
  /\ intervalRef = 0
  /\ active = {}
  /\ autoStarts = 0
  /\ isEditingDuration = FALSE
  /\ editingMinutes = DefaultWorkMinutes
  /\ editStep = "idle"
  /\ selectedProject = NoProject
  /\ selectedCategory = NoCategory
  /\ projects = {}
  /\ categories = {}
  /\ projectList = {}
  /\ ThemeIdle

TimerFrame == UNCHANGED <<themeVars, cache, pending, settings, intervalRef, active,
                          autoStarts, isEditingDuration, editingMinutes, editStep>>

\* createProject of the project store: projectService.create gives the row a
\* fresh id, and the project joins the list in memory
ProjectCreate ==
  \E id \in ProjectIds \ (projects \cup projectList), dbOk \in BOOLEAN :
    /\ projects' = IF dbOk THEN projects \cup {id} ELSE projects
    /\ projectList' = IF dbOk THEN projectList \cup {id} ELSE projectList
    /\ lastCall' = CallOn("projectService.create",
                          IF dbOk THEN "resolved" ELSE "rejected", id)
    /\ UNCHANGED <<categories, sessions, timer, selectedProject, selectedCategory>>
    /\ TimerFrame

\* categoryService.create: the row gets a fresh id and the projectId it was given
CategoryCreate ==
  \E id \in CategoryIds \ {c.id : c \in categories},
     p \in ProjectIds, dbOk \in BOOLEAN :
    /\ categories' = IF dbOk THEN categories \cup {[id |-> id, projectId |-> p]}
                     ELSE categories
    /\ lastCall' = CallOn("categoryService.create",
                          IF dbOk THEN "resolved" ELSE "rejected", p)
    /\ UNCHANGED <<projects, projectList, sessions, timer,
                   selectedProject, selectedCategory>>
    /\ TimerFrame

\* the page of a project of the list is opened: setCurrentProject of the
\* project store, and the sync effect of the Timer copies the project
SelectProject ==
  \E p \in projectList :
    /\ selectedProject' = p
    /\ selectedCategory' = NoCategory
    /\ timer' = IF p # timer.currentProject THEN setProject(timer, p) ELSE timer
    /\ lastCall' = CallOn("setCurrentProject", "returned", p)
    /\ UNCHANGED <<projects, categories, projectList, sessions>>
    /\ TimerFrame

\* a category of the selected project is chosen: setCurrentCategory of the
\* project store, and the sync effect of the Timer copies the category
SelectCategory ==
  \E c \in categories :
    /\ selectedProject # NoProject
    /\ c.projectId = selectedProject
    /\ selectedCategory' = c.id
    /\ timer' = IF c.id # timer.currentCategory THEN setCategory(timer, c.id) ELSE timer
    /\ lastCall' = CallOn("setCurrentCategory", "returned", c.id)
    /\ UNCHANGED <<projects, categories, projectList, sessions, selectedProject>>
    /\ TimerFrame

\* the Timer on the page of the selected project: a countdown is started,
\* runs to its end and completeSession hands its session to sessionService.create
SessionRowCreate ==
  \E dbOk \in BOOLEAN :
    LET session == SessionOf([timer EXCEPT !.sessionStartTime = Now, !.timeLeft = 0])
        stored == createStores(session, dbOk)
    IN /\ Len(sessions) < MaxRows
       /\ selectedProject # NoProject
       /\ timer.currentProject = selectedProject
       /\ timer.currentCategory # NoCategory
       /\ sessions' = IF stored THEN Append(sessions, session) ELSE sessions
       /\ lastCall' = CallOn("sessionService.create",
                             IF stored THEN "resolved" ELSE "rejected",
                             timer.currentProject)
       /\ UNCHANGED <<projects, categories, projectList, timer,
                      selectedProject, selectedCategory>>
       /\ TimerFrame

\* deleteProject of the project store: projectService.delete; when it has
\* resolved the project leaves the list in memory and the selection is
\* cleared if the deleted project was the selected one
ProjectDelete ==
  \E id \in projectList, failAt \in FailPoints :
    LET db == projectServiceDelete(projects, categories, sessions, id, failAt)
        cleared == db.signal = "resolved" /\ selectedProject = id
    IN /\ projects' = db.projects
       /\ categories' = db.categories
       /\ sessions' = db.sessions
       /\ projectList' = IF db.signal = "resolved" THEN projectList \ {id}
                         ELSE projectList
       /\ selectedProject' = IF cleared THEN NoProject ELSE selectedProject
       /\ selectedCategory' = IF cleared THEN NoCategory ELSE selectedCategory
       /\ timer' = timer
       /\ lastCall' = CallOn("projectService.delete", db.signal, id)
       /\ TimerFrame

NextProjects ==
  \/ ProjectCreate
  \/ CategoryCreate
  \/ SessionRowCreate
  \/ SelectProject
  \/ SelectCategory
  \/ ProjectDelete

SpecProjects == InitProjects /\ [][NextProjects]_vars

(***************************************************************************)
(* SpecSettings: the settings store, its durable row, the userSettings     *)
(* item and the theme of the document, from the start of the application.  *)
(***************************************************************************)
\* the arguments of updateSettings
UpdateArgs ==
  {[workDuration |-> 2, shortBreakDuration |-> 1],
   [longBreakInterval |-> 2, autoStartBreaks |-> TRUE],
   [theme |-> "dark"],
   [theme |-> "light"],
   [theme |-> "system"]}

CallWith(op, result, updates) == [op |-> op, result |-> result, updates |-> updates]

SettingsFrame ==
  UNCHANGED <<projects, categories, projectList, timer, sessions, pending,
              intervalRef, active, autoStarts, isEditingDuration,
              editingMinutes, editStep, selectedProject, selectedCategory,
              analyticsData, mounted>>

\* the first start of the application: nothing in localStorage, the row of
\* initializeDatabase in db.userSettings
InitSettings ==
  /\ osDark \in BOOLEAN
  /\ durable = DbRow
  /\ LET loaded == loadSettings(applyThemeCache(NoStoredSettings, "system"), DbRow, TRUE)
     IN /\ settings = loaded.settings
        /\ cache = loaded.cache
        /\ error = loaded.error
  /\ rootDark = applyThemeClass("system", osDark)
  /\ themeListener = TRUE
  /\ analyticsData = analyticsDataOf(<<>>, {}, {})
  /\ mounted = TRUE
  /\ lastCall = Call("loadSettings", "resolved")
  /\ timer = InitialTimerState
  /\ sessions = <<>>
  /\ pending = <<>>
  /\ intervalRef = 0
  /\ active = {}
  /\ autoStarts = 0
  /\ isEditingDuration = FALSE
  /\ editingMinutes = DefaultWorkMinutes
  /\ editStep = "idle"
  /\ selectedProject = NoProject
  /\ selectedCategory = NoCategory
  /\ projects = Projects
  /\ categories = CategoryRows
  /\ projectList = Projects

\* the page is loaded again: the store is created from the item, App runs
\* initializeTheme and then loadSettings
AppStart ==
  \E dbOk \in BOOLEAN :
    LET theme == getCurrentTheme(cache)
        loaded == loadSettings(applyThemeCache(cache, theme), durable, dbOk)
    IN /\ settings' = loaded.settings
       /\ cache' = loaded.cache
       /\ error' = loaded.error
       /\ rootDark' = applyThemeClass(loaded.settings.theme, osDark)
       /\ themeListener' = (theme = "system")
       /\ lastCall' = Call("loadSettings", "resolved")
       /\ UNCHANGED <<durable, osDark>>
       /\ SettingsFrame

SettingsUpdate ==
  \E u \in UpdateArgs, dbOk \in BOOLEAN :
    LET r == updateSettings(settings, cache, u, dbOk)
    IN /\ settings' = r.settings
       /\ cache' = r.cache
       /\ error' = r.error
       /\ durable' = IF dbOk THEN settingsServiceUpdate(durable, u) ELSE durable
       /\ rootDark' = IF "theme" \in DOMAIN u THEN applyThemeClass(u.theme, osDark)
                      ELSE rootDark
       /\ lastCall' = CallWith("updateSettings",
                               IF dbOk THEN "resolved" ELSE "rejected", u)
       /\ UNCHANGED <<osDark, themeListener>>
       /\ SettingsFrame

SettingsReset ==
  \E dbOk \in BOOLEAN :
    LET r == resetSettings(settings, cache, dbOk)
    IN /\ settings' = r.settings
       /\ cache' = r.cache
       /\ error' = r.error
       /\ durable' = IF dbOk THEN settingsServiceUpdate(durable, DEFAULT_SETTINGS)
                     ELSE durable
       /\ rootDark' = applyThemeClass(DEFAULT_SETTINGS.theme, osDark)
       /\ lastCall' = Call("resetSettings", IF dbOk THEN "resolved" ELSE "rejected")
       /\ UNCHANGED <<osDark, themeListener>>
       /\ SettingsFrame

\* the Toggle Theme button of the header
ThemeToggle ==
  LET newTheme == IF getCurrentTheme(cache) = "dark" THEN "light" ELSE "dark"
  IN /\ cache' = applyThemeCache(cache, newTheme)
     /\ rootDark' = applyThemeClass(newTheme, osDark)
     /\ lastCall' = Call("toggleTheme", "returned")
     /\ UNCHANGED <<settings, durable, error, osDark, themeListener>>
     /\ SettingsFrame

\* the colour scheme of the system changes: handleChange, if it was registered
OsSchemeChange ==
  /\ osDark' = ~osDark
  /\ rootDark' = IF themeListener THEN osDark' ELSE rootDark
  /\ lastCall' = Call("prefers-color-scheme", "changed")
  /\ UNCHANGED <<settings, cache, durable, error, themeListener>>
  /\ SettingsFrame

\* the user clears the localStorage of the site
CacheCleared ==
  /\ cache # NoStoredSettings
  /\ cache' = NoStoredSettings
  /\ lastCall' = Call("localStorage.clear", "returned")
  /\ UNCHANGED <<settings, durable, error, rootDark, osDark, themeListener>>
  /\ SettingsFrame

NextSettings ==
  \/ AppStart
  \/ CacheCleared
  \/ SettingsUpdate
  \/ SettingsReset
  \/ ThemeToggle
  \/ OsSchemeChange

SpecSettings == InitSettings /\ [][NextSettings]_vars

(***************************************************************************)
(* SpecAnalytics: sessions are logged for the categories of two projects,  *)
(* categories are deleted, and the analytics page computes its data.       *)
(***************************************************************************)
\* the seconds a logged countdown has run
ElapsedArgs == {20, 90, 1500}
SessionTypes == {"work", "short_break"}

AnalyticsFrame ==
  UNCHANGED <<timer, cache, settings, pending, intervalRef, active, autoStarts,
              isEditingDuration, editingMinutes, editStep, selectedProject,
              selectedCategory, durable, error, rootDark, osDark, themeListener,
              mounted>>

InitAnalytics ==
  /\ projects = ProjectIds
  /\ projectList = ProjectIds
  /\ categories = {[id |-> "c1", projectId |-> "p1"], [id |-> "c2", projectId |-> "p2"]}
  /\ sessions = <<>>
  /\ lastCall = Call("create", "returned")
  /\ timer = InitialTimerState
  /\ cache = StoredCache
  /\ settings = [longBreakInterval |-> 4, autoStartBreaks |-> FALSE]
  /\ pending = <<>>
  /\ intervalRef = 0
  /\ active = {}
  /\ autoStarts = 0
  /\ isEditingDuration = FALSE
  /\ editingMinutes = DefaultWorkMinutes
  /\ editStep = "idle"
  /\ selectedProject = NoProject
  /\ selectedCategory = NoCategory
  /\ ThemeIdle

\* a countdown of a category of a project is saved after it has run a while
SessionLogged ==
  \E c \in categories, mode \in SessionTypes, elapsed \in ElapsedArgs :
    LET s == [InitialTimerState EXCEPT !.currentProject = c.projectId,
                                       !.currentCategory = c.id,
                                       !.currentMode = mode,
                                       !.sessionStartTime = Now,
                                       !.timeLeft = @ - elapsed]
    IN /\ Len(sessions) < MaxRows
       /\ c.projectId \in projectList
       /\ sessions' = Append(sessions, SessionOf(s))
       /\ lastCall' = CallOn("sessionService.create", "resolved", c.projectId)
       /\ UNCHANGED <<projects, categories, projectList, analyticsData>>
       /\ AnalyticsFrame

\* deleteCategory of the project store: categoryService.delete removes the
\* row, and the category leaves the categories of its project in memory
CategoryDelete ==
  \E c \in categories :
    /\ categories' = categories \ {c}
    /\ lastCall' = CallOn("categoryService.delete", "resolved", c.id)
    /\ UNCHANGED <<projects, projectList, sessions, analyticsData>>
    /\ AnalyticsFrame

\* the analytics page is shown: loadSessions, then the analyticsData memo
AnalyticsRender ==
  /\ analyticsData' = analyticsDataOf(sessions, projectList, categories)
  /\ lastCall' = Call("analyticsData", "returned")
  /\ UNCHANGED <<projects, categories, projectList, sessions>>
  /\ AnalyticsFrame

NextAnalytics ==
  \/ SessionLogged
  \/ CategoryDelete
  \/ AnalyticsRender

SpecAnalytics == InitAnalytics /\ [][NextAnalytics]_vars

(***************************************************************************)
(* SpecComplete: the Timer of Spec around the end of a countdown, where    *)
(* Start may be pressed while handleTimerComplete awaits its save.         *)
(***************************************************************************)
MaxCompleting == 2      \* calls of sessionService.create awaited at once

\* Start button, Space: also while completions await sessionService.create
UserStartAtEnd ==
  /\ UserMay
  /\ ~timer.isRunning
  /\ CommitWithin("startTimer", "returned", startTimer(timer, Now), pending,
                  autoStarts, MaxCompleting)
  /\ Frame

NextComplete ==
  \/ UserStartAtEnd
  \/ UserPause
  \/ UserSelectCategory
  \/ IntervalFires
  \/ CreateSettles

SpecComplete == Init /\ [][NextComplete]_vars

(***************************************************************************)
(* SpecResume: one countdown of the store, from its start to its end, with *)
(* manual saves after which the user starts the timer again.               *)
(***************************************************************************)
MaxSaves == 2           \* rows of db.timerSessions in SpecResume

InitResume ==
  /\ timer = resetTimer(setCategory(setProject(InitialTimerState, "p1"), "c1"),
                        StoredCache)
  /\ cache = StoredCache
  /\ sessions = <<>>
  /\ pending = <<>>
  /\ lastCall = Call("resetTimer", "returned")
  /\ InitApp

ResumeSync(op, s) ==
  /\ Len(sessions) < MaxSaves
  /\ timer' = s
  /\ lastCall' = Call(op, "returned")
  /\ UNCHANGED <<cache, sessions, pending>>
  /\ UNCHANGED appVars

\* Start button, while the countdown has not ended
ResumeStart ==
  /\ ~timer.isRunning
  /\ timer.timeLeft > 0
  /\ ResumeSync("startTimer", startTimer(timer, Now))

\* the interval of the Timer
ResumeTick ==
  /\ timer.isRunning
  /\ timer.timeLeft > 0
  /\ ResumeSync("tick", tick(timer))

\* Save Session button: await saveCurrentSession()
ResumeSave ==
  \E dbOk \in BOOLEAN :
    LET path == saveCurrentSessionPath(timer)
        stored == path = "create" /\ createStores(SessionOf(timer), dbOk) IN
    /\ Len(sessions) < MaxSaves
    /\ Observed(timer)
    /\ sessions' = IF stored THEN Append(sessions, SessionOf(timer)) ELSE sessions
    /\ timer' = saveCurrentSessionEnd(timer, path, stored)
    /\ lastCall' = Call("saveCurrentSession", saveCurrentSessionSignal(path, stored))
    /\ UNCHANGED <<cache, pending>>
    /\ UNCHANGED appVars

\* the countdown is at zero: await completeSession()
ResumeComplete ==
  \E dbOk \in BOOLEAN :
    LET path == completeSessionPath(timer)
        stored == path = "create" /\ createStores(SessionOf(timer), dbOk) IN
    /\ Len(sessions) < MaxSaves
    /\ timer.isRunning
    /\ timer.timeLeft = 0
    /\ sessions' = IF stored THEN Append(sessions, SessionOf(timer)) ELSE sessions
    /\ timer' = completeSessionEnd(timer, path)
    /\ lastCall' = Call("completeSession", completeSessionSignal(path, stored))
    /\ UNCHANGED <<cache, pending>>
    /\ UNCHANGED appVars

NextResume ==
  \/ ResumeStart
  \/ ResumeTick
  \/ ResumeSave
  \/ ResumeComplete

SpecResume == InitResume /\ [][NextResume]_vars

(***************************************************************************)
(* SpecNavigate: the Timer of Spec on a page that the user leaves for the  *)
(* dashboard or the analytics and opens again.  The timer store outlives   *)
(* the component.                                                          *)
(***************************************************************************)
\* the effects of the Timer at its mount: the interval effect runs whatever
\* the store holds
mountEffects(s, pend, autos, st, c) ==
  render([s EXCEPT !.isRunning = ~s.isRunning], s, 0, {}, pend, autos, st, c)

PageStart == mounted /\ UserStart

PagePause == mounted /\ UserPause

PageReset == mounted /\ UserReset

\* a link to another route: the Timer unmounts, its interval effect cleans up
LeavePage ==
  /\ mounted
  /\ Idle
  /\ mounted' = FALSE
  /\ active' = cleanup(intervalRef, active)
  /\ intervalRef' = 0
  /\ lastCall' = Call("unmount", "returned")
  /\ UNCHANGED <<timer, pending, autoStarts, projects, categories, projectList,
                 cache, settings, sessions, isEditingDuration, editingMinutes,
                 editStep, selectedProject, selectedCategory, durable, error,
                 rootDark, osDark, themeListener, analyticsData>>

\* the page of the project is opened again: the Timer mounts
OpenPage ==
  LET r == mountEffects(timer, pending, autoStarts, settings, cache)
  IN /\ ~mounted
     /\ Idle
     /\ mounted' = TRUE
     /\ timer' = r.timer
     /\ intervalRef' = r.ref
     /\ active' = r.act
     /\ pending' = r.pending
     /\ autoStarts' = r.autoStarts
     /\ lastCall' = Call("mount", "returned")
     /\ UNCHANGED <<projects, categories, projectList, cache, settings, sessions,
                    isEditingDuration, editingMinutes, editStep, selectedProject,
                    selectedCategory, durable, error, rootDark, osDark,
                    themeListener, analyticsData>>

NextNavigate ==
  \/ PageStart
  \/ PagePause
  \/ PageReset
  \/ IntervalFires
  \/ LeavePage
  \/ OpenPage

SpecNavigate == Init /\ [][NextNavigate]_vars

(***************************************************************************)
(* The claims.                                                             *)
(***************************************************************************)

\* C1: at most one interval is registered at any time, and no interval is
\* registered while the timer is not running: every way out of Running
\* (pause, reset, mode change, completion, manual save) cancels the interval,
\* also after the re-registration that follows each tick.
C1_AtMostOneTickCallback ==
  /\ Cardinality(active) <= 1
  /\ active # {} => timer.isRunning /\ active = {intervalRef}

\* a paused countdown that has ticked: its interval was registered and cancelled
C1_Witness ==
  /\ lastCall.op = "pauseTimer"
  /\ timer.timeLeft < timer.totalTime
  /\ intervalRef # 0
  /\ active = {}

\* C2 as stated: 0 <= timeLeft <= totalTime in every reachable state, the state
\* between updateTotalTime and updateTimeLeft of handleDurationSave included.
C2_TimeLeftWithinTotal ==
  /\ 0 <= timer.timeLeft
  /\ timer.timeLeft <= timer.totalTime

\* C3: tick() lowers timeLeft by exactly 1 when the timer is running with
\* timeLeft > 0 and changes nothing otherwise; it changes no other field and
\* leaves timeLeft non-negative.
C3_TickContract ==
  [][lastCall'.op = "tick" =>
       /\ IF timer.isRunning /\ timer.timeLeft > 0
          THEN timer'.timeLeft = timer.timeLeft - 1
          ELSE timer'.timeLeft = timer.timeLeft
       /\ [timer' EXCEPT !.timeLeft = 0] = [timer EXCEPT !.timeLeft = 0]
       /\ timer'.timeLeft >= 0
       /\ sessions' = sessions]_vars

\* tick() was called on a paused countdown and left it as it was
C3_Witness ==
  /\ lastCall.op = "tick"
  /\ ~timer.isRunning
  /\ timer.timeLeft > 0
  /\ timer.timeLeft = timer.totalTime - 1

\* C4: pauseTimer() keeps sessionStartTime, startTimer() keeps a recorded
\* sessionStartTime (so pause followed by start leaves it as it was), and
\* startTimer() on a timer without one stamps a new one.
C4_ResumeKeepsStartTime ==
  [][/\ lastCall'.op = "pauseTimer" =>
          timer'.sessionStartTime = timer.sessionStartTime
     /\ lastCall'.op = "startTimer" =>
          /\ timer'.isRunning
          /\ IF timer.sessionStartTime # NoTime
             THEN timer'.sessionStartTime = timer.sessionStartTime
             ELSE /\ timer'.sessionStartTime # NoTime
                  /\ \A i \in DOMAIN sessions :
                       sessions[i].startTime # timer'.sessionStartTime]_vars

\* a countdown that ticked, was paused and has been started again
C4_Witness ==
  /\ lastCall.op = "startTimer"
  /\ timer.isRunning
  /\ timer.sessionStartTime # NoTime
  /\ timer.timeLeft = timer.totalTime - 1

\* C5: with completedPomodoros starting at 0 and longBreakInterval = N, the
\* k-th work countdown that runs to its end switches to long_break when
\* k mod N = 0 and to short_break otherwise; a break that runs to its end
\* switches to work.
C5_LongBreakEveryNth ==
  [][(\/ lastCall'.result = "completed"
      \/ lastCall'.op = "handleTimerComplete") =>
       IF timer.currentMode = "work"
       THEN /\ timer'.completedPomodoros = timer.completedPomodoros + 1
            /\ timer'.currentMode =
                 IF timer'.completedPomodoros % settings.longBreakInterval = 0
                 THEN "long_break" ELSE "short_break"
       ELSE /\ timer'.completedPomodoros = timer.completedPomodoros
            /\ timer'.currentMode = "work"]_vars

\* N = 4: the fourth work countdown has ended and the long break is next
C5_Witness ==
  /\ settings.longBreakInterval = 4
  /\ lastCall.result = "completed"
  /\ timer.completedPomodoros = 4
  /\ timer.currentMode = "long_break"

\* C6: completeSession and saveCurrentSession hand a session to the database
\* only in a state where currentProject, currentCategory and sessionStartTime
\* are all set; in every other state the table stays as it is.
C6_PersistOnlyWithContext ==
  [][sessions' # sessions =>
       /\ timer.currentProject # NoProject
       /\ timer.currentCategory # NoCategory
       /\ timer.sessionStartTime # NoTime]_vars

\* a session of project p1 and category c1 is in the table
C6_Witness ==
  /\ lastCall.op \in {"completeSession", "saveCurrentSession"}
  /\ Len(sessions) = 1
  /\ sessions[1].projectId = "p1"
  /\ sessions[1].categoryId = "c1"
  /\ sessions[1].startTime # NoTime

\* C7: a persisted session has plannedDuration = totalTime * 1000 and
\* actualDuration = (totalTime - timeLeft) * 1000 of the moment of the save,
\* and completed exactly when timeLeft was 0; a session saved at timeLeft = 0
\* has actualDuration = plannedDuration and completed = true.
C7_PersistedDurations ==
  [][sessions' # sessions =>
       LET row == sessions'[Len(sessions')] IN
       /\ Len(sessions') = Len(sessions) + 1
       /\ row.plannedDuration = timer.totalTime * 1000
       /\ row.actualDuration = (timer.totalTime - timer.timeLeft) * 1000
       /\ row.completed = (timer.timeLeft = 0)
       /\ timer.timeLeft = 0 =>
            row.actualDuration = row.plannedDuration /\ row.completed]_vars

\* a manual save with 900 of 1500 seconds left: 600000 of 1500000 ms, not completed
C7_Witness ==
  /\ lastCall.op = "saveCurrentSession"
  /\ Len(sessions) = 1
  /\ sessions[1].plannedDuration = 1500000
  /\ sessions[1].actualDuration = 600000
  /\ sessions[1].completed = FALSE

\* C8: saveCurrentSession() called without a project, a category or a
\* sessionStartTime rejects, persists nothing and leaves the timer state
\* as it was.
C8_SaveWithoutContextRejects ==
  [][(/\ lastCall'.op = "saveCurrentSession"
      /\ \/ timer.currentProject = NoProject
         \/ timer.currentCategory = NoCategory
         \/ timer.sessionStartTime = NoTime) =>
       /\ lastCall'.result = "rejected"
       /\ sessions' = sessions
       /\ timer' = timer]_vars

\* a running countdown without a project, after a rejected saveCurrentSession()
C8_Witness ==
  /\ lastCall = Call("saveCurrentSession", "rejected")
  /\ timer.currentProject = NoProject
  /\ timer.sessionStartTime # NoTime
  /\ timer.isRunning

\* C9: a session with an empty projectId or categoryId, a plannedDuration
\* <= 0, an actualDuration < 0 or an unknown type is persisted by neither
\* path: completeSession resolves and saveCurrentSession rejects.
C9_InvalidNeverPersisted ==
  [][(/\ lastCall'.op \in {"completeSession", "saveCurrentSession"}
      /\ timer.currentProject # NoProject
      /\ timer.currentCategory # NoCategory
      /\ timer.sessionStartTime # NoTime
      /\ \/ timer.currentProject = ""
         \/ timer.currentCategory = ""
         \/ timer.totalTime * 1000 <= 0
         \/ (timer.totalTime - timer.timeLeft) * 1000 < 0
         \/ timer.currentMode \notin {"work", "short_break", "long_break"}) =>
       /\ sessions' = sessions
       /\ lastCall'.op = "completeSession" => lastCall'.result = "resolved"
       /\ lastCall'.op = "saveCurrentSession" => lastCall'.result = "rejected"]_vars

\* completeSession() has returned on a session whose plannedDuration is 0
C9_Witness ==
  /\ lastCall = Call("completeSession", "resolved")
  /\ timer.currentProject = "p1"
  /\ timer.currentCategory = "c1"
  /\ timer.sessionStartTime # NoTime
  /\ timer.totalTime = 0
  /\ sessions = <<>>

\* C10: the automatic completion never raises.  When the context is missing
\* or the database fails, completeSession resolves, no session is stored and
\* handleTimerComplete goes on: a work countdown counts one pomodoro and
\* switches to a break, a break switches to work.
C10_CompletionNeverRaises ==
  [][(/\ \/ lastCall'.result \in {"completed", "completing"}
         \/ lastCall'.op = "handleTimerComplete"
      /\ sessions' = sessions) =>
       \/ lastCall'.result = "completing"
       \/ \E mode \in Modes :
            /\ \/ lastCall'.result = "completed" /\ mode = timer.currentMode
               \/ /\ lastCall'.op = "handleTimerComplete"
                  /\ lastCall'.result = "resolved"
                  /\ \E i \in DOMAIN pending :
                       /\ pending' = RemoveAt(pending, i)
                       /\ pending[i].caller = "completeSession"
                       /\ mode = pending[i].closure.mode
            /\ ~timer'.isRunning
            /\ IF mode = "work"
               THEN /\ timer'.completedPomodoros = timer.completedPomodoros + 1
                    /\ timer'.currentMode \in {"short_break", "long_break"}
               ELSE /\ timer'.completedPomodoros = timer.completedPomodoros
                    /\ timer'.currentMode = "work"]_vars

\* the database failed on the first work session: nothing is stored, the
\* pomodoro is counted and the break is next
C10_Witness ==
  /\ lastCall = Call("handleTimerComplete", "resolved")
  /\ sessions = <<>>
  /\ timer.completedPomodoros = 1
  /\ timer.currentMode \in {"short_break", "long_break"}
  /\ ~timer.isRunning

\* C11 as stated: when completeSession() is called at timeLeft = 0 on a running
\* timer, the timer is idle when it returns (isRunning false, sessionStartTime
\* cleared) on every path: saved, missing context, validation failure,
\* database error.
C11_IdleAfterCompleteSession ==
  [][(/\ lastCall'.op = "completeSession"
      /\ timer.isRunning
      /\ timer.timeLeft = 0) =>
       /\ ~timer'.isRunning
       /\ timer'.sessionStartTime = NoTime]_vars

\* C12: completedPomodoros changes only by +1, and only in the handling of a
\* work countdown that reached timeLeft = 0 while running; pause, reset, mode
\* change, tick, manual save and the completion of a break leave it as it is.
C12_PomodorosOnlyOnWorkCompletion ==
  [][timer'.completedPomodoros # timer.completedPomodoros =>
       /\ timer'.completedPomodoros = timer.completedPomodoros + 1
       /\ \/ /\ lastCall'.result = "completed"
             /\ lastCall'.op \in {"tick", "startTimer", "autoStart"}
             /\ timer.currentMode = "work"
             /\ timer.isRunning \/ timer.timeLeft = 0
          \/ /\ lastCall'.op = "handleTimerComplete"
             /\ \E i \in DOMAIN pending :
                  /\ pending' = RemoveAt(pending, i)
                  /\ pending[i].caller = "completeSession"
                  /\ pending[i].closure.mode = "work"
                  /\ pending[i].session.completed]_vars

\* one work countdown and the break after it have run to their end
C12_Witness ==
  /\ lastCall.result = "completed"
  /\ timer.currentMode = "work"
  /\ timer.completedPomodoros = 1
  /\ ~timer.isRunning

C15_StartWhileRunningIsNoOp ==
  [][(lastCall'.op \in {"startTimer", "autoStart"} /\ timer.isRunning) =>
       /\ timer' = timer
       /\ active' = active
       /\ intervalRef' = intervalRef
       /\ pending' = pending]_vars

\* the auto-start timeout has fired on a break the user had already started
C15_Witness ==
  /\ lastCall = Call("autoStart", "already running")
  /\ timer.isRunning
  /\ timer.sessionStartTime # NoTime
  /\ Cardinality(active) = 1

\* C16: pauseTimer() sets isRunning to false and changes nothing else:
\* timeLeft, totalTime, currentMode, completedPomodoros and sessionStartTime
\* keep their values.
C16_PauseOnlyStops ==
  [][lastCall'.op = "pauseTimer" =>
       /\ ~timer'.isRunning
       /\ timer' = [timer EXCEPT !.isRunning = FALSE]]_vars

\* a countdown paused after its first tick, still holding its start time
C16_Witness ==
  /\ lastCall.op = "pauseTimer"
  /\ ~timer.isRunning
  /\ timer.sessionStartTime # NoTime
  /\ timer.timeLeft = timer.totalTime - 1

\* C17: the auto-start timeout is scheduled only by the completion of a work
\* countdown with autoStartBreaks enabled; the completion of a short or long
\* break schedules nothing and leaves the timer idle, so no countdown starts
\* after it without a start by the user.
C17_AutoStartOnlyAfterWork ==
  [][/\ autoStarts' > autoStarts =>
          /\ settings.autoStartBreaks
          /\ timer'.completedPomodoros = timer.completedPomodoros + 1
          /\ timer'.currentMode \in {"short_break", "long_break"}
     /\ (\/ /\ lastCall'.result = "completed"
            /\ timer.currentMode # "work"
         \/ /\ lastCall'.op = "handleTimerComplete"
            /\ \E i \in DOMAIN pending :
                 /\ pending' = RemoveAt(pending, i)
                 /\ pending[i].caller = "completeSession"
                 /\ pending[i].closure.mode # "work") =>
          /\ autoStarts' = autoStarts
          /\ ~timer'.isRunning
          /\ active' = {}
     /\ (lastCall'.op = "autoStart" /\ timer'.isRunning /\ ~timer.isRunning) =>
          settings.autoStartBreaks]_vars

\* the timeout scheduled by a work completion has started the break
C17_Witness ==
  /\ lastCall = Call("autoStart", "returned")
  /\ settings.autoStartBreaks
  /\ timer.isRunning
  /\ timer.currentMode \in {"short_break", "long_break"}
  /\ timer.timeLeft = timer.totalTime

\* C18 as stated: handleDurationSave writes totalTime and timeLeft only while
\* the timer is not running, whatever the user did between opening the dialog
\* and saving (start by keyboard, leaving the fullscreen view).
C18_DurationEditOnlyWhenIdle ==
  [][lastCall'.op \in {"updateTotalTime", "handleDurationSave"} =>
       ~timer.isRunning]_vars

\* C19: a save that has not settled does not hold up the countdown: while a
\* sessionService.create call of saveCurrentSession or completeSession is
\* pending, a tick of a running countdown with timeLeft > 0 lowers timeLeft by
\* 1, and the interval stays registered for the next tick.
C19_PendingSaveDoesNotBlockTick ==
  [][(/\ lastCall'.op = "tick"
      /\ pending # <<>>
      /\ timer.isRunning
      /\ timer.timeLeft > 0) =>
       /\ timer'.timeLeft = timer.timeLeft - 1
       /\ timer'.timeLeft > 0 => timer'.isRunning /\ active' # {}]_vars

\* a tick has gone by while the create call of a manual save was pending
C19_Witness ==
  /\ lastCall.op = "tick"
  /\ timer.isRunning
  /\ timer.timeLeft = timer.totalTime - 2
  /\ Len(pending) = 1
  /\ pending[1].caller = "saveCurrentSession"
  /\ pending[1].ticks = 1
  /\ pending[1].session.actualDuration = 1000

\* C20: when projectService.delete(p) has resolved, the database holds no
\* project with id p, no category with projectId p and no session with
\* projectId p, and the rows of the other projects are what they were.
C20_DeleteRemovesProjectData ==
  [][(/\ lastCall'.op = "projectService.delete"
      /\ lastCall'.result = "resolved") =>
       LET p == lastCall'.id IN
       /\ p \notin projects'
       /\ \A c \in categories' : c.projectId # p
       /\ \A i \in DOMAIN sessions' : sessions'[i].projectId # p
       /\ \A q \in projects : q # p => q \in projects'
       /\ projects' \subseteq projects
       /\ \A c \in categories : c.projectId # p => c \in categories'
       /\ categories' \subseteq categories
       /\ sessions' = SelectSeq(sessions, LAMBDA r : r.projectId # p)]_vars

\* p1 was deleted with its rows; the project p2, its category and its session remain
C20_Witness ==
  /\ lastCall = CallOn("projectService.delete", "resolved", "p1")
  /\ projects = {"p2"}
  /\ categories = {[id |-> "c2", projectId |-> "p2"]}
  /\ Len(sessions) = 1
  /\ sessions[1].projectId = "p2"

\* C21 as stated: no orphaned sessions: in every reachable state the projectId
\* of every row of db.timerSessions is the id of a row of db.projects,
\* whatever the order of project deletions and sessions saved by the timer.
C21_NoOrphanedSessions ==
  \A i \in DOMAIN sessions : sessions[i].projectId \in projects

\* C22 as stated: a category is created only for an existing project: in every
\* reachable state the projectId of every row of db.categories is the id of
\* a row of db.projects.
C22_CategoryProjectExists ==
  \A c \in categories : c.projectId \in projects

\* C23: updateSettings(u) is a partial merge: when the call has resolved, every
\* field of u has the value of u in the store's settings, every other field
\* of the settings has the value it had, the userSettings item holds exactly
\* the new settings, and the durable row received the same update (the
\* fields of u overwritten, its other fields kept).
C23_UpdateIsPartialMerge ==
  [][lastCall'.op = "updateSettings" /\ lastCall'.result = "resolved" =>
       LET u == lastCall'.updates
       IN /\ DOMAIN settings' = DOMAIN settings \cup DOMAIN u
          /\ \A f \in DOMAIN settings' :
               settings'[f] = IF f \in DOMAIN u THEN u[f] ELSE settings[f]
          /\ DOMAIN cache' = DOMAIN settings'
          /\ \A f \in DOMAIN cache' : cache'[f] = settings'[f]
          /\ DOMAIN durable' = DOMAIN durable \cup DOMAIN u
          /\ \A f \in DOMAIN durable' :
               durable'[f] = IF f \in DOMAIN u THEN u[f] ELSE durable[f]]_vars

\* a resolved update that left a field it does not name at a value other than
\* the default
C23_Witness ==
  /\ lastCall.op = "updateSettings"
  /\ lastCall.result = "resolved"
  /\ \E f \in DOMAIN settings \ DOMAIN lastCall.updates : settings[f] # DbRow[f]
  /\ \A f \in DOMAIN lastCall.updates : settings[f] = lastCall.updates[f]

\* C24: when the durable write of updateSettings(u) fails, the userSettings
\* item is still set to the settings merged with u and the store records an
\* error, so that a following setMode or resetTimer loads the merged durations.
C24_FailedUpdateStillCached ==
  [][lastCall'.op = "updateSettings" /\ lastCall'.result = "rejected" =>
       LET u == lastCall'.updates
           merged == [f \in DOMAIN settings \cup DOMAIN u |->
                        IF f \in DOMAIN u THEN u[f] ELSE settings[f]]
       IN /\ cache' = merged
          /\ error' # NoError
          /\ setMode(timer', "work", CacheView(cache')).totalTime
               = merged.workDuration * SecondsPerMinute
          /\ setMode(timer', "short_break", CacheView(cache')).totalTime
               = merged.shortBreakDuration * SecondsPerMinute
          /\ setMode(timer', "long_break", CacheView(cache')).totalTime
               = merged.longBreakDuration * SecondsPerMinute
          /\ resetTimer(timer', CacheView(cache')).timeLeft
               = merged.workDuration * SecondsPerMinute]_vars

\* a rejected update of the durations: the item has them, the durable row not
C24_Witness ==
  /\ lastCall.op = "updateSettings"
  /\ lastCall.result = "rejected"
  /\ "workDuration" \in DOMAIN lastCall.updates
  /\ cache.workDuration = lastCall.updates.workDuration
  /\ durable.workDuration # lastCall.updates.workDuration
  /\ error # NoError

\* C25: after resetSettings, whether its durable write succeeded or not, the
\* store's settings and the userSettings item are the documented defaults:
\* 25, 5, 15, 4, audio on, notifications on, auto start off, theme system.
C25_ResetRestoresDefaults ==
  [][lastCall'.op = "resetSettings" =>
       LET documented == [workDuration |-> 25, shortBreakDuration |-> 5,
                          longBreakDuration |-> 15, longBreakInterval |-> 4,
                          audioEnabled |-> TRUE, notificationsEnabled |-> TRUE,
                          autoStartBreaks |-> FALSE, theme |-> "system"]
       IN settings' = documented /\ cache' = documented]_vars

\* a reset whose durable write failed, of settings that were not the defaults
C25_Witness ==
  /\ lastCall.op = "resetSettings"
  /\ lastCall.result = "rejected"
  /\ durable.workDuration # DefaultWorkMinutes
  /\ durable.theme # "system"
  /\ settings.workDuration = DefaultWorkMinutes
  /\ cache.theme = "system"

\* C28 as stated: a change of the colour scheme of the system changes the dark
\* class of the document root only while the selected theme is system: with
\* light or dark selected the class stays as it was, and with system selected
\* the class follows the new preference.
C28_OsChangeOnlyWhileSystem ==
  [][lastCall'.op = "prefers-color-scheme" =>
       rootDark' = IF getCurrentTheme(cache) = "system" THEN osDark' ELSE rootDark]_vars

RECURSIVE C26_SumTimes(_, _)
C26_SumTimes(f, D) ==
  IF D = {} THEN 0
  ELSE LET d == CHOOSE e \in D : TRUE IN f[d] + C26_SumTimes(f, D \ {d})

C26_Within(minutes, ms, entries) ==
  /\ minutes * MillisPerMinute - ms <= entries * (MillisPerMinute \div 2)
  /\ ms - minutes * MillisPerMinute <= entries * (MillisPerMinute \div 2)

\* C26 as stated: in the analyticsData computed from any sessions and projects,
\* the times of categoryBreakdown and the times of projectBreakdown both add
\* up to totalFocusedTime, up to the rounding of each entry (half a minute
\* for each project or category with sessions), also when a session refers
\* to a category that was deleted.
C26_BreakdownsAddUp ==
  lastCall.op = "analyticsData" =>
    LET a == analyticsData
        work == workSessions(sessions)
    IN /\ C26_Within(C26_SumTimes(a.projectBreakdown, DOMAIN a.projectBreakdown),
                     a.totalFocusedTime,
                     Cardinality({sessions[i].projectId : i \in work}))
       /\ C26_Within(C26_SumTimes(a.categoryBreakdown, DOMAIN a.categoryBreakdown),
                     a.totalFocusedTime,
                     Cardinality({sessions[i].categoryId : i \in work}))

\* C27 as stated: incomplete sessions are still logged: when a started
\* countdown with a project and a category, that has ticked and is not at
\* zero, is abandoned by resetTimer, setMode or clearCurrentSession, a session
\* with completed = false and actualDuration equal to the elapsed time is
\* persisted.
C27_AbandonedSessionLogged ==
  [][(/\ lastCall'.op \in {"resetTimer", "setMode", "clearCurrentSession"}
      /\ HasContext(timer)
      /\ validateSessionData(SessionOf(timer)) = {}
      /\ timer.timeLeft > 0
      /\ timer.timeLeft < timer.totalTime)
     => /\ Len(sessions') = Len(sessions) + 1
        /\ ~sessions'[Len(sessions')].completed
        /\ sessions'[Len(sessions')].actualDuration
             = secondsToMilliseconds(timer.totalTime - timer.timeLeft)]_vars

\* C29 as stated: a countdown that has reached zero is completed once: when
\* handleTimerComplete has finished for a work countdown, completedPomodoros
\* is one more than it was when that countdown reached zero, whatever the
\* user did (pause, then start) while the save was awaited.
C29_CompletedOnce ==
  [][lastCall'.op = "handleTimerComplete" =>
       \A i \in DOMAIN pending :
         (/\ pending' = RemoveAt(pending, i)
          /\ pending[i].caller = "completeSession"
          /\ pending[i].closure.mode = "work")
         => timer'.completedPomodoros = pending[i].closure.pomodoros + 1]_vars

\* C30 as stated: when a save of sessionService.create settles while the timer
\* runs a countdown other than the one the save was made for (one with
\* another start time, as after a reset or a change of mode followed by a
\* start), the handler that awaited the save neither stops that countdown
\* nor clears its sessionStartTime nor changes its mode.
C30_SettlingKeepsNewCountdown ==
  [][lastCall'.op \in {"handleSaveSession", "handleTimerComplete"} =>
       \A i \in DOMAIN pending :
         (/\ pending' = RemoveAt(pending, i)
          /\ timer.isRunning
          /\ timer.sessionStartTime # pending[i].session.startTime)
         => /\ timer'.isRunning
            /\ timer'.sessionStartTime = timer.sessionStartTime
            /\ timer'.currentMode = timer.currentMode]_vars

\* C31 as stated: elapsed time is never recorded twice: the actualDuration of
\* the sessions persisted from one countdown (manual saves, each followed by
\* a start that resumes it, and its completion) add up to at most
\* totalTime * 1000.
C31_ElapsedRecordedOnce ==
  SumDurations(sessions, DOMAIN sessions) <= secondsToMilliseconds(timer.totalTime)

\* C32: when sessionService.create fails during saveCurrentSession, the call
\* rejects and leaves the timer as it was (isRunning and sessionStartTime
\* keep their values, so the same session can be saved again); only a save
\* that stored its session sets isRunning = false and clears sessionStartTime.
C32_FailedSaveKeepsSession ==
  [][lastCall'.op = "saveCurrentSession" /\ saveCurrentSessionPath(timer) = "create" =>
       \/ /\ lastCall'.result = "rejected"
          /\ sessions' = sessions
          /\ timer' = timer
          /\ saveCurrentSessionPath(timer') = "create"
       \/ /\ lastCall'.result = "resolved"
          /\ sessions' = Append(sessions, SessionOf(timer))
          /\ timer' = [timer EXCEPT !.isRunning = FALSE,
                                    !.sessionStartTime = NoTime]]_vars

\* a save of a running countdown that the database refused
C32_Witness ==
  /\ lastCall.op = "saveCurrentSession"
  /\ lastCall.result = "rejected"
  /\ saveCurrentSessionPath(timer) = "create"
  /\ timer.isRunning
  /\ timer.sessionStartTime # NoTime
  /\ timer.timeLeft < timer.totalTime
  /\ sessions = <<>>

\* C33 as stated: a running countdown always makes progress: in every state
\* with isRunning = true and timeLeft # 0 an interval that calls tick is
\* registered, also after the Timer was unmounted by navigation.
C33_RunningHasTick ==
  timer.isRunning /\ timer.timeLeft # 0 => active # {}

\* C34 as stated: when the auto-start timeout scheduled by a work completion
\* fires, the timer is in a break mode with timeLeft = totalTime, and the
\* startTimer of the timeout does not start or resume a work countdown,
\* whatever the user did since the completion.
C34_AutoStartBeginsBreak ==
  [][lastCall'.op = "autoStart" =>
       /\ timer.currentMode \in {"short_break", "long_break"}
       /\ timer.timeLeft = timer.totalTime
       /\ ~(timer'.isRunning /\ ~timer.isRunning /\ timer'.currentMode = "work")]_vars

\* C35 as stated, for the sessions whose project is persisted: when a session
\* is persisted, a category that its categoryId identifies belongs to the
\* session's projectId, for every sequence of project and category
\* selections.
C35_SessionCategoryOfProject ==
  [][Len(sessions') > Len(sessions) =>
       LET session == sessions'[Len(sessions')]
       IN \A c \in categories :
            c.id = session.categoryId /\ session.projectId \in projects
              => c.projectId = session.projectId]_vars

\* C36 as stated: after every loadSettings, updateSettings and resetSettings,
\* whether the durable write succeeded or failed, the settings of the settings
\* store equal the settings in the userSettings item.
C36_MemoryEqualsCache ==
  [][lastCall'.op \in {"loadSettings", "updateSettings", "resetSettings"} =>
       cache' = settings']_vars

\* C37 as stated: when localStorage holds no userSettings item and the durable
\* store holds a settings row, loadSettings yields the value that row has for
\* every setting.
C37_LoadPrefersDurable ==
  [][/\ lastCall'.op = "loadSettings"
      /\ cache = NoStoredSettings
      /\ "id" \in DOMAIN settings'      \* settingsService.get read the row
      =>
       \A f \in DOMAIN DEFAULT_SETTINGS : settings'[f] = durable[f]]_vars

\* C38: in every reachable state of the timer store, a running timer has a
\* session start time.
C38_RunningHasStartTime ==
  timer.isRunning => timer.sessionStartTime # NoTime

\* a timer resumed part-way through its countdown, running with the start
\* time of its session
C38_Witness ==
  /\ lastCall.op = "startTimer"
  /\ timer.isRunning
  /\ timer.timeLeft < timer.totalTime
  /\ timer.sessionStartTime # NoTime

\* C39 as stated: when one of the three deletions of projectService.delete(p)
\* fails, the rows of the database are what they were before the call, the
\* project list of the project store still agrees with the rows of db.projects,
\* and no category or session of p remains without the row of p.
C39_DeleteAllOrNothing ==
  [][(/\ lastCall'.op = "projectService.delete"
      /\ lastCall'.result = "rejected") =>
       LET p == lastCall'.id IN
       /\ projects' = projects
       /\ categories' = categories
       /\ sessions' = sessions
       /\ projectList = projects => projectList' = projects'
       /\ p \notin projects' =>
            /\ \A c \in categories' : c.projectId # p
            /\ \A i \in DOMAIN sessions' : sessions'[i].projectId # p]_vars

====
